---- MODULE Spec2Model ----
(***************************************************************************)
(* Model of metrics/metrics_factory.py: the MetricCreator factories        *)
(* (AwsCreator, StatsDCreator) and the metric clients (AwsMetricClient,    *)
(* StatsDMetricClient) with their lazily memoized backend handle.          *)
(*                                                                         *)
(* Callers are workers.  A worker builds clients through a creator, reads  *)
(* the `client` property of a client and emits metrics, on a client or     *)
(* through a creator.  A call is a sequence of steps, one per call of an   *)
(* external collaborator (the handle's constructor, the outbound call on   *)
(* the handle), so that the calls of different workers interleave.  A      *)
(* worker only calls into client objects it built itself (spec section 5:  *)
(* one Client instance per worker).                                        *)
(*                                                                         *)
(* The external collaborators (boto3.client, StatsClient, datetime.now and *)
(* the handle's put_metric_data / incr) are the environment: a constructor *)
(* returns a new handle or raises, an outbound call is recorded by the     *)
(* handle and returns or raises, the clock only moves forward.             *)
(***************************************************************************)
EXTENDS Integers, Sequences, FiniteSets, TLC

\* ---------------------------------------------------------------- bounds
NumWorkers == 2      \* concurrent callers
MaxClients == 2      \* client objects created over a run
MaxOps == 2          \* `client` property evaluations over a run

Workers == 1..NumWorkers

\* ---------------------------------------------------------------- inputs
Creators == {"AwsCreator", "StatsDCreator"}
Omitted == "<omitted>"
\* (collector_name, env_name) as the caller passes them
CallArgs == { <<"gitlab_crawl", Omitted>>, <<"gitlab_crawl", "prod">>,
              <<"jira_crawl", "prod">> }
CtorErrors == {"NoRegionError"}
TransportErrors == {"EndpointConnectionError"}

NoAttr == 0          \* the instance has no _client attribute yet
NoErr == [origin |-> "none", name |-> "none"]

VARIABLES clients, handles, clock, pc, call

vars == <<clients, handles, clock, pc, call>>

\* ------------------------------------------------------- pure functions

\* AwsCreator.factory_client / StatsDCreator.factory_client: the class of the
\* client the creator instantiates.
factory_client_always_aws(creator) == "AwsMetricClient"

factory_client(creator) ==
    IF creator = "AwsCreator" THEN "AwsMetricClient" ELSE "StatsDMetricClient"

\* The binding of the parameter env_name: str = 'dev'.
env_name_default(envArg) == IF envArg = Omitted THEN "dev" ELSE envArg

\* The keyword arguments AwsMetricClient.send_collector_metric passes to
\* put_metric_data.
put_metric_data_args_swapped(collector_name, env_name, now) ==
    [Namespace |-> "Collector-Metrics",
     MetricData |-> <<
        [MetricName |-> "collector_crawl",
         Dimensions |-> << [Name |-> "environment", Value |-> env_name],
                           [Name |-> "collector_name", Value |-> collector_name] >>,
         Timestamp |-> now,
         Value |-> 1,
         Unit |-> "Count"] >>]

put_metric_data_args(collector_name, env_name, now) ==
    [Namespace |-> "Collector-Metrics",
     MetricData |-> <<
        [MetricName |-> "collector_crawl",
         Dimensions |-> << [Name |-> "collector_name", Value |-> collector_name],
                           [Name |-> "environment", Value |-> env_name] >>,
         Timestamp |-> now,
         Value |-> 1,
         Unit |-> "Count"] >>]

\* The positional argument StatsDMetricClient.send_collector_metric passes to
\* incr: f'collector_crawl.{collector_name}'.
incr_stat_with_env(collector_name, env_name) ==
    "collector_crawl." \o collector_name \o "." \o env_name

incr_stat(collector_name, env_name) == "collector_crawl." \o collector_name

\* The outbound calls one send_collector_metric makes on the handle it got
\* from self.client, in order.
OutboundCalls_twice(cls, collector_name, env_name, now) ==
    IF cls = "AwsMetricClient"
    THEN << [method |-> "put_metric_data",
             args |-> put_metric_data_args(collector_name, env_name, now)],
            [method |-> "put_metric_data",
             args |-> put_metric_data_args(collector_name, env_name, now)] >>
    ELSE << [method |-> "incr",
             args |-> [stat |-> incr_stat(collector_name, env_name)]],
            [method |-> "incr",
             args |-> [stat |-> incr_stat(collector_name, env_name)]] >>

OutboundCalls(cls, collector_name, env_name, now) ==
    IF cls = "AwsMetricClient"
    THEN << [method |-> "put_metric_data",
             args |-> put_metric_data_args(collector_name, env_name, now)] >>
    ELSE << [method |-> "incr",
             args |-> [stat |-> incr_stat(collector_name, env_name)]] >>

\* The backend a client class constructs its handle for.
BackendOf(cls) ==
    IF cls = "AwsMetricClient" THEN "cloudwatch" ELSE "statsd"

\* The arguments MetricCreator.send_collector_crawl_metric hands on to
\* metric_client.send_collector_metric.
delegate_args_env_dropped(collector_name, env_name) ==
    [collector_name |-> collector_name, env_name |-> env_name_default(Omitted)]

delegate_args(collector_name, env_name) ==
    [collector_name |-> collector_name, env_name |-> env_name]

\* ------------------------------------------------------- client objects

\* A client object right after instantiation: no _client attribute.  owner,
\* held, gets, recv, ctorCalls and ctorFails are bookkeeping of the callers
\* and of the patched constructor, not attributes of the object.
NewClientObject(cls, w, isHeld) ==
    [cls |-> cls, _client |-> NoAttr, owner |-> w, held |-> isHeld,
     gets |-> 0, recv |-> <<>>, ctorCalls |-> 0, ctorFails |-> 0]

\* `return self._client` in the try block of the client property: the
\* attribute's value, NoAttr standing for the AttributeError.
ReadClientAttr_never(cs, c) == NoAttr

ReadClientAttr_class_level(cs, c) ==
    IF \E d \in 1..Len(cs) : cs[d].cls = cs[c].cls /\ cs[d]._client # NoAttr
    THEN cs[CHOOSE d \in 1..Len(cs) :
                cs[d].cls = cs[c].cls /\ cs[d]._client # NoAttr]._client
    ELSE NoAttr

ReadClientAttr(cs, c) == cs[c]._client

\* `self._client = <constructor>()` when the constructor returned h.
StoreClientAttr(cl, h) == [cl EXCEPT !._client = h]

\* The same assignment when the constructor raised: it does not happen.
ClientAfterCtorRaise_memoized(cl) == [cl EXCEPT !._client = -1]

ClientAfterCtorRaise(cl) == cl

\* ---------------------------------------------------------------- calls

IdleCall ==
    [op |-> "none", creator |-> "none", client |-> 0,
     collector_name |-> "none", envArg |-> Omitted, env_name |-> "none",
     handle |-> NoAttr, now |-> -1, tries |-> 0,
     puts |-> 0, raisedBy |-> NoErr, outcome |-> "ok", error |-> NoErr,
     value |-> 0]

BeginCall(op, c) ==
    [IdleCall EXCEPT !.op = op, !.client = c, !.outcome = "running"]

\* An exception of the constructor leaves the property, and the
\* send_collector_metric or send_collector_crawl_metric above it, uncaught.
CtorRaised_retry(fr, err) == [pc |-> "ctor", fr |-> fr]

CtorRaised(fr, err) ==
    [pc |-> "idle", fr |-> [fr EXCEPT !.outcome = "raised", !.error = err]]

\* An exception of put_metric_data / incr leaves send_collector_metric, and
\* the send_collector_crawl_metric above it, uncaught.
PutRaised_retry(fr, err) == [pc |-> "put", fr |-> fr]

PutRaised(fr, err) ==
    [pc |-> "idle", fr |-> [fr EXCEPT !.outcome = "raised", !.error = err]]

\* datetime.now(): every reading returns the instant after the last one read.
datetime_now(t) == t + 1

\* The property returned h to the running call at clock t: the caller of a
\* bare property read gets h; send_collector_metric evaluates the arguments
\* of the outbound call ('Timestamp': datetime.now() for put_metric_data) and
\* is about to make it.
PropertyReturned(fr, cls, h, t) ==
    IF fr.op = "client"
    THEN [pc |-> "idle", clock |-> t,
          fr |-> [fr EXCEPT !.outcome = "ok", !.value = h]]
    ELSE IF cls = "AwsMetricClient"
    THEN [pc |-> "put", clock |-> datetime_now(t),
          fr |-> [fr EXCEPT !.handle = h, !.now = datetime_now(t)]]
    ELSE [pc |-> "put", clock |-> t, fr |-> [fr EXCEPT !.handle = h]]

\* The property is entered by the running call: `return self._client`
\* succeeds, or AttributeError sends it to the constructor.
PropertyEntered(fr, cs, t) ==
    LET h == ReadClientAttr(cs, fr.client) IN
    IF h # NoAttr
    THEN PropertyReturned(fr, cs[fr.client].cls, h, t)
    ELSE [pc |-> "ctor", clock |-> t, fr |-> fr]

\* ----------------------------------------------------------------- state

Init ==
    /\ clients = <<>>
    /\ handles = <<>>
    /\ clock = 0
    /\ pc = [w \in Workers |-> "idle"]
    /\ call = [w \in Workers |-> IdleCall]

RECURSIVE SumOver(_, _)
SumOver(cs, n) == IF n = 0 THEN 0 ELSE cs[n] + SumOver(cs, n - 1)

\* Property evaluations over the run so far.
TotalGets == SumOver([c \in 1..Len(clients) |-> clients[c].gets], Len(clients))

\* The caller w may call into client object c.
MayCall(w, c) ==
    /\ pc[w] = "idle"
    /\ clients[c].owner = w
    /\ clients[c].held
    /\ TotalGets < MaxOps

\* --------------------------------------------------------------- actions

\* creator.factory_client() called by the owning application.
FactoryClient(w, creator) ==
    /\ pc[w] = "idle"
    /\ Len(clients) < MaxClients
    /\ clients' = Append(clients, NewClientObject(factory_client(creator), w, TRUE))
    /\ call' = [call EXCEPT ![w] =
                  [BeginCall("factory_client", Len(clients) + 1) EXCEPT
                     !.creator = creator,
                     !.outcome = "ok", !.value = Len(clients) + 1]]
    /\ UNCHANGED <<handles, clock, pc>>

\* The running call of w goes on as r says, with the client objects cs.
Proceed(w, cs, r) ==
    /\ clients' = cs
    /\ call' = [call EXCEPT ![w] = r.fr]
    /\ pc' = [pc EXCEPT ![w] = r.pc]
    /\ clock' = r.clock

\* `c.client` evaluated by the owning application.
ClientGet(w, c) ==
    /\ MayCall(w, c)
    /\ \E cs \in {[clients EXCEPT ![c].gets = @ + 1]} :
       \E r \in {PropertyEntered(BeginCall("client", c), cs, clock)} :
          Proceed(w, cs, r)
    /\ UNCHANGED handles

\* c.send_collector_metric(collector_name[, env_name]): the parameters are
\* bound and self.client.put_metric_data / self.client.incr is evaluated,
\* which enters the property.
SendBegin(w, c, collector_name, envArg) ==
    /\ MayCall(w, c)
    /\ \E env_name \in {env_name_default(envArg)} :
       \E cs \in {[clients EXCEPT
                     ![c].gets = @ + 1,
                     ![c].recv = Append(@, [collector_name |-> collector_name,
                                            env_name |-> env_name])]} :
       \E fr \in {[BeginCall("send_collector_metric", c) EXCEPT
                     !.collector_name = collector_name,
                     !.envArg = envArg, !.env_name = env_name]} :
       \E r \in {PropertyEntered(fr, cs, clock)} :
          Proceed(w, cs, r)
    /\ UNCHANGED handles

\* creator.send_collector_crawl_metric(collector_name[, env_name]): binds the
\* parameters, builds a client with factory_client and calls its
\* send_collector_metric, which enters the property.
EmitBegin(w, creator, collector_name, envArg) ==
    /\ pc[w] = "idle"
    /\ Len(clients) < MaxClients
    /\ TotalGets < MaxOps
    /\ \E passed \in {delegate_args(collector_name, env_name_default(envArg))} :
       \E fresh \in {NewClientObject(factory_client(creator), w, FALSE)} :
       \E cs \in {Append(clients, [fresh EXCEPT !.gets = 1, !.recv = <<passed>>])} :
       \E fr \in {[BeginCall("send_collector_crawl_metric", Len(cs)) EXCEPT
                     !.creator = creator,
                     !.collector_name = collector_name, !.envArg = envArg,
                     !.env_name = passed.env_name]} :
       \E r \in {PropertyEntered(fr, cs, clock)} :
          Proceed(w, cs, r)
    /\ UNCHANGED handles

\* The except block: boto3.client('cloudwatch') / StatsClient() returns a new
\* handle, which is stored and returned.
CtorOk(w) ==
    /\ pc[w] = "ctor"
    /\ \E c \in {call[w].client} :
       \E h \in {Len(handles) + 1} :
       \E r \in {PropertyReturned([call[w] EXCEPT !.tries = @ + 1],
                                  clients[c].cls, h, clock)} :
       /\ handles' = Append(handles, [backend |-> BackendOf(clients[c].cls),
                                      owner |-> c, calls |-> <<>>])
       /\ Proceed(w, [clients EXCEPT
                        ![c] = [StoreClientAttr(@, h) EXCEPT !.ctorCalls = @ + 1]],
                  r)

\* The except block: the constructor raises.
CtorFail(w, e) ==
    /\ pc[w] = "ctor"
    /\ \E c \in {call[w].client} :
       \E err \in {[origin |-> "constructor", name |-> e]} :
       \E r \in {CtorRaised([call[w] EXCEPT !.tries = @ + 1, !.raisedBy = err],
                            err)} :
       /\ clients' = [clients EXCEPT
                        ![c] = [ClientAfterCtorRaise(@) EXCEPT
                                  !.ctorCalls = @ + 1, !.ctorFails = @ + 1]]
       /\ pc' = [pc EXCEPT ![w] = r.pc]
       /\ call' = [call EXCEPT ![w] = r.fr]
    /\ UNCHANGED <<handles, clock>>

\* What the handle records of the first n of the outbound calls outs, the
\* last of which raised err (NoErr: it returned).
Received(outs, n, err) ==
    [i \in 1..n |-> [method |-> outs[i].method, args |-> outs[i].args,
                     raised |-> IF i = n THEN err ELSE NoErr]]

\* The outbound calls of the running call fr of a client of class cls.
CallsOf(fr, cls) ==
    OutboundCalls(cls, fr.collector_name, fr.env_name, fr.now)

\* The outbound call on the handle returns.
PutOk(w) ==
    /\ pc[w] = "put"
    /\ \E fr \in {call[w]} :
       \E outs \in {CallsOf(fr, clients[fr.client].cls)} :
       /\ fr.handle \in DOMAIN handles
       /\ handles' = [handles EXCEPT
                        ![fr.handle].calls = @ \o Received(outs, Len(outs), NoErr)]
       /\ call' = [call EXCEPT ![w] =
                     [fr EXCEPT !.puts = @ + Len(outs), !.outcome = "ok"]]
       /\ pc' = [pc EXCEPT ![w] = "idle"]
    /\ UNCHANGED <<clients, clock>>

\* The outbound call on the handle raises.
PutFail(w, e) ==
    /\ pc[w] = "put"
    /\ \E fr \in {call[w]} :
       \E outs \in {CallsOf(fr, clients[fr.client].cls)} :
       \E err \in {[origin |-> "transport", name |-> e]} :
       \E r \in {PutRaised([fr EXCEPT !.puts = @ + 1, !.raisedBy = err], err)} :
       /\ fr.handle \in DOMAIN handles
       /\ Len(outs) > 0
       /\ handles' = [handles EXCEPT
                        ![fr.handle].calls = @ \o Received(outs, 1, err)]
       /\ call' = [call EXCEPT ![w] = r.fr]
       /\ pc' = [pc EXCEPT ![w] = r.pc]
    /\ UNCHANGED <<clients, clock>>

\* One step of the callers in W, which use the creators in C and pass the
\* arguments in A.
Step(W, C, A) ==
    \/ \E w \in W, creator \in C : FactoryClient(w, creator)
    \/ \E w \in W, c \in 1..Len(clients) : ClientGet(w, c)
    \/ \E w \in W, c \in 1..Len(clients), a \in A : SendBegin(w, c, a[1], a[2])
    \/ \E w \in W, creator \in C, a \in A : EmitBegin(w, creator, a[1], a[2])
    \/ \E w \in W : CtorOk(w)
    \/ \E w \in W, e \in CtorErrors : CtorFail(w, e)
    \/ \E w \in W : PutOk(w)
    \/ \E w \in W, e \in TransportErrors : PutFail(w, e)

\* Single-threaded use (spec section 5): one caller, every input.
Next == Step({1}, Creators, CallArgs)

Spec == Init /\ [][Next]_vars

\* One client per worker: the workers' calls interleave step by step.  The
\* workers use the cloud-monitoring creator and client (the property of the
\* stats-daemon client, lines 130-137, is the same code as lines 84-91) and
\* pass one pair of arguments.
NextWorkers == Step(Workers, {"AwsCreator"}, {<<"gitlab_crawl", Omitted>>})

SpecWorkers == Init /\ [][NextWorkers]_vars

\* ------------------------------------------------------------ properties

Emissions == {"send_collector_metric", "send_collector_crawl_metric"}

\* The call of w has returned or raised.
Returned(w) == pc[w] = "idle" /\ call[w].op # "none"

\* The environment label an emission was called with.
Label(fr) == IF fr.envArg = Omitted THEN "dev" ELSE fr.envArg

\* The handles constructed for client c, and the outbound calls they received.
HandlesOf(c) == {h \in DOMAIN handles : handles[h].owner = c}
Constructions(c) == clients[c].ctorCalls - clients[c].ctorFails
Running(c) == {w \in Workers : pc[w] # "idle" /\ call[w].client = c}

\* The put_metric_data request of spec section 4.2 / 8.
CloudRequest(collector_id, environment_label, timestamp) ==
    [Namespace |-> "Collector-Metrics",
     MetricData |-> << [MetricName |-> "collector_crawl",
                        Dimensions |-> << [Name |-> "collector_name",
                                           Value |-> collector_id],
                                          [Name |-> "environment",
                                           Value |-> environment_label] >>,
                        Timestamp |-> timestamp,
                        Value |-> 1,
                        Unit |-> "Count"] >>]

\* The last outbound call the handle h received.
LastOn(h) == handles[h].calls[Len(handles[h].calls)]

\* C1: an emission on a cloud-monitoring client that reached the transport
\* made exactly one outbound call, a put_metric_data whose request has
\* Namespace 'Collector-Metrics' and one record: MetricName
\* 'collector_crawl', Dimensions collector_name = collector_id then
\* environment = environment_label ('dev' when omitted), Value 1, Unit
\* 'Count', and as Timestamp the clock reading taken during the call, later
\* than the timestamp of every earlier request on the handle.
C1_CloudEmission ==
    \A w \in Workers :
        (/\ Returned(w)
         /\ call[w].op \in Emissions
         /\ clients[call[w].client].cls = "AwsMetricClient"
         /\ call[w].handle # NoAttr)
        => /\ call[w].puts = 1
           /\ call[w].handle \in DOMAIN handles
           /\ handles[call[w].handle].backend = "cloudwatch"
           /\ Len(handles[call[w].handle].calls) >= 1
           /\ LastOn(call[w].handle).method = "put_metric_data"
           /\ LastOn(call[w].handle).args =
                 CloudRequest(call[w].collector_name, Label(call[w]), call[w].now)
           /\ call[w].now >= 1
           /\ call[w].now <= clock
           /\ \A i \in 1..(Len(handles[call[w].handle].calls) - 1) :
                 handles[call[w].handle].calls[i].args.MetricData[1].Timestamp
                    < call[w].now

C1_Witness ==
    \E w \in Workers :
        /\ Returned(w)
        /\ call[w].op = "send_collector_metric"
        /\ call[w].outcome = "ok"
        /\ call[w].envArg = Omitted
        /\ clients[call[w].client].cls = "AwsMetricClient"
        /\ Len(handles[call[w].handle].calls) = 2
        /\ LastOn(call[w].handle).args.MetricData[1].Dimensions[2].Value = "dev"

\* C2: an emission on a stats-daemon client that reached the transport made
\* exactly one outbound call, an incr whose key is 'collector_crawl.'
\* followed by collector_id, whatever the environment label.
C2_StatsdEmission ==
    \A w \in Workers :
        (/\ Returned(w)
         /\ call[w].op \in Emissions
         /\ clients[call[w].client].cls = "StatsDMetricClient"
         /\ call[w].handle # NoAttr)
        => /\ call[w].puts = 1
           /\ call[w].handle \in DOMAIN handles
           /\ handles[call[w].handle].backend = "statsd"
           /\ Len(handles[call[w].handle].calls) >= 1
           /\ LastOn(call[w].handle).method = "incr"
           /\ LastOn(call[w].handle).args =
                 [stat |-> "collector_crawl." \o call[w].collector_name]

C2_Witness ==
    \E w \in Workers :
        /\ Returned(w)
        /\ call[w].op = "send_collector_metric"
        /\ call[w].outcome = "ok"
        /\ call[w].envArg = "prod"
        /\ clients[call[w].client].cls = "StatsDMetricClient"
        /\ LastOn(call[w].handle).args.stat = "collector_crawl.jira_crawl"

\* C3: the constructor of a client's handle is not invoked before the first
\* evaluation of the client property; it returns a handle for the client at
\* most once; while no construction failed, the accesses made so far invoked
\* it exactly once; and every access returns the one handle constructed for
\* the client.
C3_LazyMemoizedHandle ==
    /\ \A c \in DOMAIN clients :
          /\ clients[c].gets = 0
                => clients[c].ctorCalls = 0 /\ clients[c]._client = NoAttr
          /\ Cardinality(HandlesOf(c)) <= 1
          /\ Cardinality(HandlesOf(c)) = Constructions(c)
          /\ (clients[c].ctorFails = 0 /\ clients[c].gets >= 1 /\ Running(c) = {})
                => clients[c].ctorCalls = 1 /\ HandlesOf(c) = {clients[c]._client}
    /\ \A w \in Workers :
          /\ (Returned(w) /\ call[w].op = "client" /\ call[w].outcome = "ok")
                => HandlesOf(call[w].client) = {call[w].value}
          /\ call[w].handle # NoAttr
                => HandlesOf(call[w].client) = {call[w].handle}

C3_Witness ==
    \E w \in Workers :
        /\ Returned(w)
        /\ call[w].op = "client"
        /\ call[w].outcome = "ok"
        /\ call[w].tries = 0
        /\ clients[call[w].client].gets = 2
        /\ clients[call[w].client].ctorCalls = 1
        /\ call[w].value = clients[call[w].client]._client

\* C4: factory_client of a creator returns, without failing, a client object
\* of the creator's variant (AwsCreator: AwsMetricClient, StatsDCreator:
\* StatsDMetricClient) that is new: no handle, no access and no emission yet.
C4_FactoryClient ==
    \A w \in Workers :
        call[w].op = "factory_client"
        => /\ pc[w] = "idle"
           /\ call[w].outcome = "ok"
           /\ call[w].value \in DOMAIN clients
           /\ call[w].creator = "AwsCreator"
                 => clients[call[w].value].cls = "AwsMetricClient"
           /\ call[w].creator = "StatsDCreator"
                 => clients[call[w].value].cls = "StatsDMetricClient"
           /\ clients[call[w].value]._client = NoAttr
           /\ clients[call[w].value].gets = 0
           /\ clients[call[w].value].recv = <<>>
           /\ \A v \in Workers \ {w} :
                 call[v].op = "factory_client" => call[v].value # call[w].value

C4_Witness ==
    \E w \in Workers :
        /\ call[w].op = "factory_client"
        /\ call[w].creator = "StatsDCreator"
        /\ call[w].value = 2
        /\ clients[1].cls = "AwsMetricClient"
        /\ clients[2].cls = "StatsDMetricClient"

\* C5: when the constructor raises in an emission, the emission raises that
\* construction error to its caller at once: the constructor was invoked
\* once in the call, no outbound call was made in it, and the client has
\* received no outbound call at all.
C5_ConstructionFailure ==
    \A w \in Workers :
        (call[w].op \in Emissions /\ call[w].raisedBy.origin = "constructor")
        => /\ pc[w] = "idle"
           /\ call[w].outcome = "raised"
           /\ call[w].error = call[w].raisedBy
           /\ call[w].error.name \in CtorErrors
           /\ call[w].tries = 1
           /\ call[w].puts = 0
           /\ call[w].handle = NoAttr
           /\ \A h \in HandlesOf(call[w].client) : handles[h].calls = <<>>

C5_Witness ==
    \E w \in Workers :
        /\ Returned(w)
        /\ call[w].op = "send_collector_crawl_metric"
        /\ call[w].outcome = "raised"
        /\ call[w].error.origin = "constructor"
        /\ HandlesOf(call[w].client) = {}

\* C6: when the outbound call raises in an emission (on a client or through
\* a creator), the emission raises the very error the handle raised, the
\* outbound call was made once, and the client still holds the handle the
\* call used.
C6_TransportFailure ==
    \A w \in Workers :
        (call[w].op \in Emissions /\ call[w].raisedBy.origin = "transport")
        => /\ pc[w] = "idle"
           /\ call[w].outcome = "raised"
           /\ call[w].error = call[w].raisedBy
           /\ call[w].puts = 1
           /\ call[w].handle \in DOMAIN handles
           /\ LastOn(call[w].handle).raised = call[w].error
           /\ call[w].error.name \in TransportErrors
           /\ clients[call[w].client]._client = call[w].handle
           /\ HandlesOf(call[w].client) = {call[w].handle}

C6_Witness ==
    \E w \in Workers :
        /\ Returned(w)
        /\ call[w].op = "send_collector_metric"
        /\ call[w].outcome = "raised"
        /\ call[w].error.origin = "transport"
        /\ call[w].tries = 0
        /\ Len(handles[call[w].handle].calls) = 2
        /\ handles[call[w].handle].calls[1].raised = NoErr

\* C7: send_collector_crawl_metric of a creator builds one client, of the
\* creator's variant, which nothing else uses, and calls its
\* send_collector_metric once with the caller's collector name and
\* environment label ('dev' when omitted); when it returns, that variant's
\* backend has received exactly one event through the client's handle.  No
\* client a creator emission built is left without its one emission, and
\* none gets a second one.
C7_CreatorEmission ==
    /\ \A c \in DOMAIN clients :
          ~clients[c].held
          => clients[c].gets = 1 /\ Len(clients[c].recv) = 1
    /\ \A w \in Workers :
        call[w].op = "send_collector_crawl_metric"
        => /\ call[w].client \in DOMAIN clients
           /\ clients[call[w].client].owner = w
           /\ ~clients[call[w].client].held
           /\ call[w].creator = "AwsCreator"
                 => clients[call[w].client].cls = "AwsMetricClient"
           /\ call[w].creator = "StatsDCreator"
                 => clients[call[w].client].cls = "StatsDMetricClient"
           /\ clients[call[w].client].gets = 1
           /\ clients[call[w].client].recv =
                 << [collector_name |-> call[w].collector_name,
                     env_name |-> Label(call[w])] >>
           /\ (pc[w] = "idle" /\ call[w].outcome = "ok")
                 => /\ Cardinality(HandlesOf(call[w].client)) = 1
                    /\ Len(handles[call[w].handle].calls) = 1
                    /\ handles[call[w].handle].backend =
                          (IF call[w].creator = "AwsCreator"
                           THEN "cloudwatch" ELSE "statsd")

C7_Witness ==
    \E w \in Workers :
        /\ Returned(w)
        /\ call[w].op = "send_collector_crawl_metric"
        /\ call[w].outcome = "ok"
        /\ call[w].envArg = "prod"
        /\ call[w].creator = "AwsCreator"
        /\ call[w].client = 2
        /\ clients[2].recv[1].env_name = "prod"

\* What one emission with the arguments a shows on the handle of a client
\* of class cls.
SameEvent(cls, entry, a) ==
    IF cls = "AwsMetricClient"
    THEN /\ entry.method = "put_metric_data"
         /\ Len(entry.args.MetricData) = 1
         /\ entry.args.MetricData[1].Dimensions[1].Value = a.collector_name
         /\ entry.args.MetricData[1].Dimensions[2].Value = a.env_name
    ELSE /\ entry.method = "incr"
         /\ entry.args.stat = "collector_crawl." \o a.collector_name

\* C8: on a client on which no call is running, the handle has received
\* exactly one outbound call per emission that reached it: as many calls as
\* emissions when no construction failed, never more calls than emissions,
\* and never fewer than the emissions less the failed constructions; the
\* calls are in the order of the emissions and each carries its emission's
\* arguments (the emissions a failed construction stopped come first).
Log(c) ==
    IF clients[c]._client \in DOMAIN handles
    THEN handles[clients[c]._client].calls ELSE <<>>

C8_OneCallPerEmission ==
    \A c \in DOMAIN clients :
        Running(c) = {}
        => /\ Len(Log(c)) <= Len(clients[c].recv)
           /\ Len(clients[c].recv) - Len(Log(c)) <= clients[c].ctorFails
           /\ (clients[c].ctorFails = 0 /\ clients[c].recv # <<>>)
                 => /\ clients[c]._client \in DOMAIN handles
                    /\ Len(Log(c)) = Len(clients[c].recv)
           /\ \A i \in 1..Len(Log(c)) :
                 SameEvent(clients[c].cls, Log(c)[i],
                           clients[c].recv[Len(clients[c].recv) - Len(Log(c)) + i])

C8_Witness ==
    \E c \in DOMAIN clients :
        /\ Running(c) = {}
        /\ Len(clients[c].recv) = 2
        /\ clients[c].recv[1] = clients[c].recv[2]
        /\ clients[c]._client # NoAttr
        /\ Len(handles[clients[c]._client].calls) = 2
        /\ \A i \in 1..2 : handles[clients[c]._client].calls[i].raised = NoErr

\* C9: with one client per worker and the workers' calls interleaved, no two
\* clients hold the same handle, a handle is constructed for a client at
\* most once and is used only by calls on that client, and once every
\* client has been used for one emission, without failure and with no call
\* running, there are as many handles and as many outbound calls as clients.
TotalOutbound ==
    SumOver([h \in DOMAIN handles |-> Len(handles[h].calls)], Len(handles))

C9_HandlePerClient ==
    /\ \A c \in DOMAIN clients, d \in DOMAIN clients :
          (c # d /\ clients[c]._client # NoAttr)
          => clients[c]._client # clients[d]._client
    /\ \A c \in DOMAIN clients :
          /\ Cardinality(HandlesOf(c)) <= 1
          /\ clients[c]._client # NoAttr => HandlesOf(c) = {clients[c]._client}
    /\ \A w \in Workers :
          /\ call[w].handle # NoAttr
                => /\ call[w].handle \in DOMAIN handles
                   /\ handles[call[w].handle].owner = call[w].client
          /\ (call[w].op = "client" /\ call[w].outcome = "ok")
                => /\ call[w].value \in DOMAIN handles
                   /\ handles[call[w].value].owner = call[w].client
          /\ call[w].client # 0 => clients[call[w].client].owner = w
    /\ (/\ \A w \in Workers : pc[w] = "idle"
        /\ \A c \in DOMAIN clients :
              /\ Len(clients[c].recv) = 1
              /\ clients[c].gets = 1
              /\ clients[c].ctorFails = 0
        /\ \A h \in DOMAIN handles : \A i \in DOMAIN handles[h].calls :
              handles[h].calls[i].raised = NoErr)
       => /\ Len(handles) = Len(clients)
          /\ TotalOutbound = Len(clients)

C9_Witness ==
    /\ \A w \in Workers : pc[w] = "idle"
    /\ Len(clients) = 2
    /\ clients[1].owner # clients[2].owner
    /\ \A c \in DOMAIN clients :
          Len(clients[c].recv) = 1 /\ clients[c].ctorFails = 0
    /\ Len(handles) = 2
    /\ handles[1].owner = 2
    /\ TotalOutbound = 2

\* C10: a client holds a handle only if a construction for it succeeded, and
\* then it holds the handle that construction returned; while it holds
\* none, every construction for it has failed and every access made on it
\* so far has invoked the constructor; the client of a call that raised a
\* construction error holds no handle.
C10_FailureNotMemoized ==
    /\ \A c \in DOMAIN clients :
          /\ clients[c]._client # NoAttr
                => /\ clients[c]._client \in HandlesOf(c)
                   /\ Constructions(c) = 1
          /\ clients[c]._client = NoAttr
                => /\ Constructions(c) = 0
                   /\ clients[c].ctorCalls =
                         clients[c].gets - Cardinality(Running(c))
    /\ \A w \in Workers :
          (Returned(w) /\ call[w].raisedBy.origin = "constructor")
          => clients[call[w].client]._client = NoAttr

C10_Witness ==
    \E w \in Workers :
        /\ Returned(w)
        /\ call[w].outcome = "ok"
        /\ call[w].tries = 1
        /\ clients[call[w].client].ctorFails = 1
        /\ clients[call[w].client].ctorCalls = 2
        /\ clients[call[w].client]._client # NoAttr

====
